---- MODULE Spec2Model ----
(***************************************************************************)
(* Contact-form endpoint of simple-forms (src/main.rs).                    *)
(*                                                                         *)
(* POST /contact is served by submit_contact: header checks on Origin and  *)
(* Referer, validate_form on the JSON body, then one INSERT through the    *)
(* worker's Mutex<Connection>.  HttpServer::new is given a factory, which  *)
(* actix-web runs once per worker thread, so every worker owns its own     *)
(* AppState: its own Mutex and its own connection to contacts.db.  The     *)
(* connections meet only in SQLite's file lock: a connection that finds    *)
(* the database file locked by another waits, and gives up with            *)
(* SQLITE_BUSY when its busy timeout runs out.                             *)
(*                                                                         *)
(* The handlers of one worker are allowed to interleave between any two    *)
(* steps; the model assumes nothing about how a worker schedules them.     *)
(*                                                                         *)
(* Text is modelled as a sequence of Unicode scalar values, each written   *)
(* as a one-character string, so chars().count() is Len.                   *)
(***************************************************************************)
EXTENDS Integers, Sequences, FiniteSets, TLC

(***************************************************************************)
(* Bounds of the model.                                                    *)
(***************************************************************************)
MaxRequests == 2
NumWorkers == 2

Requests == 1..MaxRequests
Workers == 1..NumWorkers

(***************************************************************************)
(* Text helpers.                                                           *)
(***************************************************************************)
Rep(c, n) == [i \in 1..n |-> c]

\* char::is_whitespace, on the characters the model uses
Whitespace == {" ", "\t"}

\* [a-z] under (?i), on the characters the model uses
AsciiLetters == {"a", "b", "c", "d", "e", "f", "h", "i", "k", "l", "m", "n", "o",
                 "p", "r", "s", "t", "u", "v", "w", "x", "A", "B", "C", "E", "M",
                 "O", "P", "X", "L"}

\* \w of the regex crate is Unicode-aware: letters of any script, digits, "_"
WordChars == AsciiLetters \cup {"é", "1", "_"}

\* a word character or a hyphen
LabelChars == WordChars \cup {"-"}

\* bytes of the UTF-8 encoding of a character (String::len counts these)
Utf8Len(c) == IF c = "é" THEN 2 ELSE 1

RECURSIVE ByteLen(_)
ByteLen(s) == IF s = <<>> THEN 0 ELSE Utf8Len(Head(s)) + ByteLen(Tail(s))

RECURSIVE TrimStart(_)
TrimStart(s) ==
    IF s # <<>> /\ Head(s) \in Whitespace THEN TrimStart(Tail(s)) ELSE s

RECURSIVE TrimEnd(_)
TrimEnd(s) ==
    IF s # <<>> /\ s[Len(s)] \in Whitespace
    THEN TrimEnd(SubSeq(s, 1, Len(s) - 1))
    ELSE s

\* str::trim
Trim(s) == TrimEnd(TrimStart(s))

\* str::contains(&str): the needle occurs at some offset of the haystack
Contains(s, d) ==
    \E i \in 0..(Len(s) - Len(d)) : SubSeq(s, i + 1, i + Len(d)) = d

\* the pieces of s between occurrences of sep (at least one piece)
RECURSIVE Split(_, _)
Split(s, sep) ==
    IF \A i \in 1..Len(s) : s[i] # sep
    THEN <<s>>
    ELSE LET k == CHOOSE i \in 1..Len(s) :
                      s[i] = sep /\ \A j \in 1..(i - 1) : s[j] # sep
         IN  <<SubSeq(s, 1, k - 1)>> \o Split(SubSeq(s, k + 1, Len(s)), sep)

AllIn(s, chars) == \A i \in 1..Len(s) : s[i] \in chars

(***************************************************************************)
(* The e-mail pattern compiled in main (main.rs line 56), case-insensitive *)
(* and anchored at both ends: a local part of one or more labels joined by *)
(* single dots, "@", a host of labels each followed by a dot and a last    *)
(* label of one word character and up to 66 word-or-hyphen ones, a dot, a  *)
(* top-level segment of 2 to 6 letters, and optionally a dot and exactly   *)
(* two letters.  A label is one or more word-or-hyphen characters.         *)
(* Neither side of "@" can contain "@" or a character outside the label    *)
(* characters and the dot, so the match is decided on the dot-separated    *)
(* labels of the two sides.                                                *)
(***************************************************************************)
LabelMax == 67
TldMin == 2
TldMax == 6
CcLen == 2

\* the local part: labels joined by single dots
LocalPartOk(l) ==
    LET labels == Split(l, ".")
    IN  \A i \in 1..Len(labels) :
            labels[i] # <<>> /\ AllIn(labels[i], LabelChars)

\* the host: labels 1..n of the domain side, the last one bounded
HostLabelsOk(labels, n) ==
    /\ n >= 1
    /\ \A i \in 1..n : labels[i] # <<>> /\ AllIn(labels[i], LabelChars)
    /\ labels[n][1] \in WordChars
    /\ Len(labels[n]) <= LabelMax

\* the top-level segment, 2 to 6 letters
TldOk(t) == AllIn(t, AsciiLetters) /\ Len(t) >= TldMin /\ Len(t) <= TldMax

\* the country-code suffix, exactly 2 letters
CcOk(t) == AllIn(t, AsciiLetters) /\ Len(t) = CcLen

DomainOk(d) ==
    LET labels == Split(d, ".")
        n == Len(labels)
    IN  \/ n >= 2 /\ TldOk(labels[n]) /\ HostLabelsOk(labels, n - 1)
        \/ /\ n >= 3
           /\ CcOk(labels[n])
           /\ TldOk(labels[n - 1])
           /\ HostLabelsOk(labels, n - 2)

\* email_regex.is_match
EmailMatch(e) ==
    LET ats == {i \in 1..Len(e) : e[i] = "@"}
    IN  /\ Cardinality(ats) = 1
        /\ LET at == CHOOSE i \in ats : TRUE
           IN  /\ LocalPartOk(SubSeq(e, 1, at - 1))
               /\ DomainOk(SubSeq(e, at + 1, Len(e)))


(***************************************************************************)
(* The length limits of validate_form.                                     *)
(***************************************************************************)
NameMax == 50
EmailMax == 50
SubjectMax == 100
MessageMax == 500

(***************************************************************************)
(* Request headers.  A header is absent, present with bytes to_str()       *)
(* refuses, or present as text.                                            *)
(***************************************************************************)
Absent == [kind |-> "absent", text |-> <<>>]
Opaque == [kind |-> "opaque", text |-> <<>>]
Text(t) == [kind |-> "text", text |-> t]

\* args.domain, copied into every worker's AppState
allowed_domain == <<"e", "x", "a", "m", "p", "l", "e", ".", "c", "o", "m">>

Pass == [status |-> 0, body |-> ""]
Reply(status, body) == [status |-> status, body |-> body]

(***************************************************************************)
(* Inputs.                                                                 *)
(***************************************************************************)
SiteUrl == <<"h", "t", "t", "p", ":", "/", "/", "e", "x", "a", "m", "p", "l", "e", ".", "c", "o", "m">>
WwwUrl == <<"h", "t", "t", "p", "s", ":", "/", "/", "w", "w", "w", ".", "e", "x", "a", "m", "p", "l", "e", ".", "c", "o", "m", "/", "c", "o", "n", "t", "a", "c", "t">>
EvilUrl == <<"h", "t", "t", "p", ":", "/", "/", "e", "v", "i", "l", ".", "c", "o", "m">>
SuffixUrl == <<"h", "t", "t", "p", ":", "/", "/", "e", "x", "a", "m", "p", "l", "e", ".", "c", "o", "m", ".", "e", "v", "i", "l", ".", "n", "e", "t">>
UpperUrl == <<"h", "t", "t", "p", ":", "/", "/", "E", "X", "A", "M", "P", "L", "E", ".", "C", "O", "M">>
SiteHost == <<"e", "x", "a", "m", "p", "l", "e", ".", "c", "o", "m">>
WwwHost == <<"w", "w", "w", ".", "e", "x", "a", "m", "p", "l", "e", ".", "c", "o", "m">>
EvilHost == <<"e", "v", "i", "l", ".", "c", "o", "m">>

Ann == <<"A", "n", "n">>
Padded == <<" ", "A", "l", " ">>
AnnMail == <<"a", "n", "n", "@", "e", "x", "a", "m", "p", "l", "e", ".", "c", "o", "m">>
LongMail == <<"u", "s", "e", "r", ".", "n", "a", "m", "e", "@", "s", "u", "b", ".", "d", "o", "m", "a", "i", "n", ".", "c", "o", ".", "u", "k">>
UpperMail == <<"A", "_", "1", "@", "X", "-", "b", ".", "C", "O">>
NoTldMail == <<"f", "o", "o", "@", "b", "a", "r">>
NoHostMail == <<"f", "o", "o", "@", ".", "c", "o", "m">>
NoLocalMail == <<"@", "b", "a", "r", ".", "c", "o", "m">>
\* a well-formed address of exactly EmailMax characters, and one of EmailMax + 1
Mail50 == Rep("a", EmailMax - 5) \o <<"@", "b", ".", "c", "o">>
Mail51 == Rep("a", EmailMax - 4) \o <<"@", "b", ".", "c", "o">>
Hi == <<"H", "i">>
Hello == <<"H", "e", "l", "l", "o">>

AnnForm == [name |-> Ann, email |-> AnnMail, subject |-> Hi, message |-> Hello]
PaddedForm == [name |-> Padded, email |-> UpperMail, subject |-> <<>>,
               message |-> Hello \o <<" ">>]
BadMailForm == [name |-> Ann, email |-> NoTldMail, subject |-> Hi, message |-> Hello]

FewForms == {AnnForm, PaddedForm, BadMailForm}

Message(h, o, f, b) == [host |-> h, origin |-> o, referer |-> f, form |-> b]

\* the requests of the concurrent runs: one that is acceptable, one the
\* validator refuses, one the guard refuses, and a second acceptable one
LiveRequests ==
    {Message(Text(SiteHost), Text(SiteUrl), Text(SiteUrl), AnnForm),
     Message(Text(SiteHost), Text(SiteUrl), Text(SiteUrl), BadMailForm),
     Message(Text(SiteHost), Text(EvilUrl), Text(SiteUrl), AnnForm)}

FewRequests ==
    LiveRequests \cup {Message(Text(SiteHost), Text(SiteUrl), Text(SiteUrl), PaddedForm)}

\* every header shape, for one request
AllOrigins == {Absent, Opaque, Text(<<>>), Text(SiteUrl), Text(WwwUrl), Text(EvilUrl),
               Text(SuffixUrl), Text(UpperUrl)}
AllReferers == {Absent, Opaque, Text(<<>>), Text(SiteUrl), Text(EvilUrl), Text(UpperUrl)}
AllHosts == {Absent, Text(SiteHost), Text(WwwHost), Text(EvilHost)}

\* every form shape, for one request
AllNames == {<<>>, <<" ", "\t">>, Ann, Padded, Rep("é", NameMax), Rep("a", NameMax + 1)}
AllEmails == {<<>>, <<" ">>, AnnMail, LongMail, UpperMail, NoTldMail, NoHostMail,
              NoLocalMail, Mail50, Mail51}
AllSubjects == {<<>>, Hi, Rep("s", SubjectMax), Rep("s", SubjectMax + 1)}
AllMessages == {<<>>, <<" ">>, Hello, Rep("m", MessageMax), Rep("m", MessageMax + 1)}
AllForms == [name : AllNames, email : AllEmails, subject : AllSubjects,
             message : AllMessages]

\* one request with every shape of the three headers
HeaderRequests == [host : AllHosts, origin : AllOrigins, referer : AllReferers,
                   form : FewForms]

\* one request with every shape of the form
FormRequests == [host : {Text(SiteHost)}, origin : {Text(SiteUrl)},
                 referer : {Text(SiteUrl), Text(<<>>)}, form : AllForms]

(***************************************************************************)
(* validate_form: eight checks in source order, the first failure returns. *)
(***************************************************************************)
\* AppState.email_regex: the pattern compiled once in main, held as its
\* verdict on every address a request of the model carries
email_regex == [e \in AllEmails |-> EmailMatch(e)]

\* validate_form with the name measured by String::len, in bytes
validate_form_ByteLen(form) ==
    IF Trim(form.name) = <<>> THEN "Name cannot be empty"
    ELSE IF Trim(form.email) = <<>> THEN "Email cannot be empty"
    ELSE IF Trim(form.message) = <<>> THEN "Message cannot be empty"
    ELSE IF ByteLen(form.name) > NameMax THEN "Name must be 50 characters or less"
    ELSE IF Len(form.email) > EmailMax THEN "Email must be 50 characters or less"
    ELSE IF Len(form.subject) > SubjectMax
         THEN "Subject must be 100 characters or less"
    ELSE IF Len(form.message) > MessageMax
         THEN "Message must be 500 characters or less"
    ELSE IF ~email_regex[form.email] THEN "Invalid email format"
    ELSE "Ok"

validate_form(form) ==
    IF Trim(form.name) = <<>> THEN "Name cannot be empty"
    ELSE IF Trim(form.email) = <<>> THEN "Email cannot be empty"
    ELSE IF Trim(form.message) = <<>> THEN "Message cannot be empty"
    ELSE IF Len(form.name) > NameMax THEN "Name must be 50 characters or less"
    ELSE IF Len(form.email) > EmailMax THEN "Email must be 50 characters or less"
    ELSE IF Len(form.subject) > SubjectMax
         THEN "Subject must be 100 characters or less"
    ELSE IF Len(form.message) > MessageMax
         THEN "Message must be 500 characters or less"
    ELSE IF ~email_regex[form.email] THEN "Invalid email format"
    ELSE "Ok"

(***************************************************************************)
(* submit_contact: the header checks and the match on validate_form.       *)
(***************************************************************************)
\* the header checks with a Host check in front of them
OriginGuardResult_HostChecked(rq) ==
    IF rq.host.kind # "text" \/ ~Contains(rq.host.text, allowed_domain)
    THEN Reply(403, "Access denied")
    ELSE IF rq.origin.kind = "absent" THEN Reply(400, "Missing origin header")
    ELSE IF rq.origin.kind = "opaque" THEN Reply(400, "Invalid origin header")
    ELSE IF rq.referer.kind = "absent" THEN Reply(400, "Missing referer header")
    ELSE IF rq.referer.kind = "opaque" THEN Reply(400, "Invalid referer header")
    ELSE IF \/ rq.origin.text # <<>> /\ ~Contains(rq.origin.text, allowed_domain)
            \/ rq.referer.text # <<>> /\ ~Contains(rq.referer.text, allowed_domain)
         THEN Reply(403, "Access denied")
    ELSE Pass

\* the header checks with a missing Referer read as an empty one
OriginGuardResult_RefererOptional(rq) ==
    IF rq.origin.kind = "absent" THEN Reply(400, "Missing origin header")
    ELSE IF rq.origin.kind = "opaque" THEN Reply(400, "Invalid origin header")
    ELSE IF rq.referer.kind = "opaque" THEN Reply(400, "Invalid referer header")
    ELSE IF \/ rq.origin.text # <<>> /\ ~Contains(rq.origin.text, allowed_domain)
            \/ rq.referer.text # <<>> /\ ~Contains(rq.referer.text, allowed_domain)
         THEN Reply(403, "Access denied")
    ELSE Pass

\* the header checks without the is_empty tests
OriginGuardResult_EmptyRejected(rq) ==
    IF rq.origin.kind = "absent" THEN Reply(400, "Missing origin header")
    ELSE IF rq.origin.kind = "opaque" THEN Reply(400, "Invalid origin header")
    ELSE IF rq.referer.kind = "absent" THEN Reply(400, "Missing referer header")
    ELSE IF rq.referer.kind = "opaque" THEN Reply(400, "Invalid referer header")
    ELSE IF \/ ~Contains(rq.origin.text, allowed_domain)
            \/ ~Contains(rq.referer.text, allowed_domain)
         THEN Reply(403, "Access denied")
    ELSE Pass

\* the header checks of submit_contact; Pass when the request goes on
OriginGuardResult(rq) ==
    IF rq.origin.kind = "absent" THEN Reply(400, "Missing origin header")
    ELSE IF rq.origin.kind = "opaque" THEN Reply(400, "Invalid origin header")
    ELSE IF rq.referer.kind = "absent" THEN Reply(400, "Missing referer header")
    ELSE IF rq.referer.kind = "opaque" THEN Reply(400, "Invalid referer header")
    ELSE IF \/ rq.origin.text # <<>> /\ ~Contains(rq.origin.text, allowed_domain)
            \/ rq.referer.text # <<>> /\ ~Contains(rq.referer.text, allowed_domain)
         THEN Reply(403, "Access denied")
    ELSE Pass

\* the handler going on whatever validate_form returned
ValidationResult_Ignored(form) == Pass

\* the match on the Result of validate_form
ValidationResult(form) ==
    IF validate_form(form) = "Ok" THEN Pass ELSE Reply(400, validate_form(form))

(***************************************************************************)
(* The contacts table.  INTEGER PRIMARY KEY makes id an alias of the       *)
(* rowid: an insert that names no id gets the largest id in use plus one.  *)
(* created_at is filled by the database and is not modelled.  The field    *)
(* req records which request wrote the row; it is not a column.            *)
(***************************************************************************)
NextId(rows) ==
    IF rows = <<>> THEN 1
    ELSE 1 + CHOOSE m \in {rows[i].id : i \in 1..Len(rows)} :
                 \A j \in 1..Len(rows) : rows[j].id <= m

\* the insert binding the trimmed name
InsertRow_Trimmed(rows, form, r) ==
    Append(rows, [id |-> NextId(rows), name |-> Trim(form.name),
                  email |-> form.email, subject |-> form.subject,
                  message |-> form.message, req |-> r])

\* INSERT INTO contacts (name, email, subject, message) VALUES (?1, ?2, ?3, ?4)
InsertRow(rows, form, r) ==
    Append(rows, [id |-> NextId(rows), name |-> form.name, email |-> form.email,
                  subject |-> form.subject, message |-> form.message, req |-> r])

\* the error arm putting the storage error into the body
StoreResponse_Leaky(res) ==
    IF res = "ok" THEN Reply(201, "Contact form submitted successfully")
    ELSE Reply(500, res)

\* the match on the Result of db.execute
StoreResponse(res) ==
    IF res = "ok" THEN Reply(201, "Contact form submitted successfully")
    ELSE Reply(500, "Failed to store contact form")

\* a manual unlock on the success arm only
DropGuard_KeptOnError(locks, w, res) ==
    IF res = "ok" THEN [locks EXCEPT ![w] = 0] ELSE locks

\* the MutexGuard db goes out of scope when submit_contact returns
DropGuard(locks, w, res) == [locks EXCEPT ![w] = 0]


(***************************************************************************)
(* State.                                                                  *)
(*   pc        where each request's handler stands                         *)
(*   req       the request: the worker that serves it, headers, JSON body  *)
(*   response  the HttpResponse returned (status 0 while there is none)    *)
(*   result    the Result of db.execute: "none", "ok", or the error        *)
(*   db        per worker, the request whose handler holds AppState.db     *)
(*   fileLock  the request whose connection holds the write lock of        *)
(*             contacts.db (0 when free)                                   *)
(*   contacts  the rows of the table, in insertion order                   *)
(*   stages    per request, the pipeline stages that ran (history)         *)
(*   attempts  per request, the calls of db.execute made (history)         *)
(***************************************************************************)
VARIABLES pc, req, response, result, db, fileLock, contacts, stages, attempts

vars == <<pc, req, response, result, db, fileLock, contacts, stages, attempts>>

NoRequest == [worker |-> 0, host |-> Absent, origin |-> Absent, referer |-> Absent,
              form |-> [name |-> <<>>, email |-> <<>>, subject |-> <<>>,
                        message |-> <<>>]]

\* a row a previous run of the server left in contacts.db
EarlierRow == [id |-> 1, name |-> Ann, email |-> AnnMail, subject |-> Hi,
               message |-> Hello, req |-> 0]

\* main: init_db has created the table if it was not there, every worker has
\* built its AppState
Init ==
    /\ pc = [r \in Requests |-> "idle"]
    /\ req = [r \in Requests |-> NoRequest]
    /\ response = [r \in Requests |-> Pass]
    /\ result = [r \in Requests |-> "none"]
    /\ db = [w \in Workers |-> 0]
    /\ fileLock = 0
    /\ contacts \in {<<>>, <<EarlierRow>>}
    /\ stages = [r \in Requests |-> {}]
    /\ attempts = [r \in Requests |-> 0]

\* the workers that have been given a request so far
Engaged == {req[q].worker : q \in Requests} \ {0}

\* the server hands a POST /contact to the handler on one of its workers.
\* Requests are numbered in the order they arrive, and workers in the order
\* they first get one: the workers are alike, so a request goes to a worker
\* that has served before or to the next one that has not.
Receive(r, incoming) ==
    /\ pc[r] = "idle"
    /\ \A q \in 1..(r - 1) : pc[q] # "idle"
    /\ \E w \in Workers, m \in incoming :
           /\ w <= Cardinality(Engaged) + 1
           /\ req' = [req EXCEPT ![r] = [worker |-> w, host |-> m.host,
                                         origin |-> m.origin,
                                         referer |-> m.referer, form |-> m.form]]
    /\ pc' = [pc EXCEPT ![r] = "guard"]
    /\ UNCHANGED <<response, result, db, fileLock, contacts, stages, attempts>>

\* submit_contact, the header checks
OriginGuard(r) ==
    /\ pc[r] = "guard"
    /\ stages' = [stages EXCEPT ![r] = @ \cup {"guard"}]
    /\ IF OriginGuardResult(req[r]) = Pass
       THEN /\ pc' = [pc EXCEPT ![r] = "validate"]
            /\ UNCHANGED response
       ELSE /\ pc' = [pc EXCEPT ![r] = "done"]
            /\ response' = [response EXCEPT ![r] = OriginGuardResult(req[r])]
    /\ UNCHANGED <<req, result, db, fileLock, contacts, attempts>>

\* submit_contact, the call of validate_form
Validate(r) ==
    /\ pc[r] = "validate"
    /\ stages' = [stages EXCEPT ![r] = @ \cup {"validate"}]
    /\ IF ValidationResult(req[r].form) = Pass
       THEN /\ pc' = [pc EXCEPT ![r] = "lock"]
            /\ UNCHANGED response
       ELSE /\ pc' = [pc EXCEPT ![r] = "done"]
            /\ response' = [response EXCEPT ![r] = ValidationResult(req[r].form)]
    /\ UNCHANGED <<req, result, db, fileLock, contacts, attempts>>

\* data.db.lock().unwrap(): blocks while another handler of the worker holds it
Lock(r) ==
    /\ pc[r] = "lock"
    /\ db[req[r].worker] = 0
    /\ db' = [db EXCEPT ![req[r].worker] = r]
    /\ pc' = [pc EXCEPT ![r] = "execute"]
    /\ UNCHANGED <<req, response, result, fileLock, contacts, stages, attempts>>

\* db.execute: the connection takes the write lock of the database file
ExecuteBegin(r) ==
    /\ pc[r] = "execute"
    /\ fileLock = 0
    /\ fileLock' = r
    /\ pc' = [pc EXCEPT ![r] = "write"]
    /\ stages' = [stages EXCEPT ![r] = @ \cup {"store"}]
    /\ attempts' = [attempts EXCEPT ![r] = @ + 1]
    /\ UNCHANGED <<req, response, result, db, contacts>>

\* db.execute returns Err before writing: the busy timeout ran out while
\* another connection held the file lock, or the storage layer failed
ExecuteFail(r) ==
    /\ pc[r] = "execute"
    /\ \E cause \in {"io"} \cup (IF fileLock # 0 THEN {"busy"} ELSE {}) :
           result' = [result EXCEPT ![r] = cause]
    /\ pc' = [pc EXCEPT ![r] = "respond"]
    /\ stages' = [stages EXCEPT ![r] = @ \cup {"store"}]
    /\ attempts' = [attempts EXCEPT ![r] = @ + 1]
    /\ UNCHANGED <<req, response, db, fileLock, contacts>>

\* db.execute returns Err while writing: the statement is rolled back
ExecuteAbort(r) ==
    /\ pc[r] = "write"
    /\ fileLock' = 0
    /\ result' = [result EXCEPT ![r] = "io"]
    /\ pc' = [pc EXCEPT ![r] = "respond"]
    /\ UNCHANGED <<req, response, db, contacts, stages, attempts>>

\* db.execute returns Ok: the row is committed and the file lock released
ExecuteCommit(r) ==
    /\ pc[r] = "write"
    /\ contacts' = InsertRow(contacts, req[r].form, r)
    /\ fileLock' = 0
    /\ result' = [result EXCEPT ![r] = "ok"]
    /\ pc' = [pc EXCEPT ![r] = "respond"]
    /\ UNCHANGED <<req, response, db, stages, attempts>>

\* submit_contact, the match on result and the return
Respond(r) ==
    /\ pc[r] = "respond"
    /\ response' = [response EXCEPT ![r] = StoreResponse(result[r])]
    /\ db' = DropGuard(db, req[r].worker, result[r])
    /\ pc' = [pc EXCEPT ![r] = "done"]
    /\ UNCHANGED <<req, result, fileLock, contacts, stages, attempts>>

Handler(r) ==
    \/ OriginGuard(r)
    \/ Validate(r)
    \/ Lock(r)
    \/ ExecuteBegin(r)
    \/ ExecuteFail(r)
    \/ ExecuteAbort(r)
    \/ ExecuteCommit(r)
    \/ Respond(r)

\* concurrent requests on the workers
Next ==
    \E r \in Requests :
        \/ Receive(r, FewRequests)
        \/ Handler(r)

Spec == Init /\ [][Next]_vars

\* every handler that can take a step takes one; a handler that keeps
\* finding the mutex free at some time gets it
Fairness ==
    \A r \in Requests :
        /\ WF_vars(OriginGuard(r) \/ Validate(r) \/ ExecuteBegin(r) \/ ExecuteFail(r)
                   \/ ExecuteAbort(r) \/ ExecuteCommit(r) \/ Respond(r))
        /\ SF_vars(Lock(r))

\* the runs checked for progress: the same handler steps on the requests
\* that differ in the path they take (stored, refused by the validator,
\* refused by the guard), starting from an empty table, on whose contents
\* no step's enabling depends
NextLive ==
    \E r \in Requests :
        \/ Receive(r, LiveRequests)
        \/ Handler(r)

InitLive == Init /\ contacts = <<>>

FairSpec == InitLive /\ [][NextLive]_vars /\ Fairness

\* one request with every shape of the three headers
NextHeaders ==
    \/ Receive(1, HeaderRequests)
    \/ Handler(1)

HeaderSpec == Init /\ [][NextHeaders]_vars

\* one request with every shape of the form
NextForms ==
    \/ Receive(1, FormRequests)
    \/ Handler(1)

FormSpec == Init /\ [][NextForms]_vars

(***************************************************************************)
(* Properties.  The rules of the Form Validator and the origin policy are  *)
(* stated here on their own, not through validate_form or                  *)
(* OriginGuardResult.                                                      *)
(***************************************************************************)
Blank(t) == \A i \in 1..Len(t) : t[i] \in Whitespace

Rule(k, f) ==
    CASE k = 1 -> ~Blank(f.name)
      [] k = 2 -> ~Blank(f.email)
      [] k = 3 -> ~Blank(f.message)
      [] k = 4 -> Len(f.name) <= 50
      [] k = 5 -> Len(f.email) <= 50
      [] k = 6 -> Len(f.subject) <= 100
      [] k = 7 -> Len(f.message) <= 500
      [] k = 8 -> EmailMatch(f.email)

RuleMessage ==
    <<"Name cannot be empty", "Email cannot be empty", "Message cannot be empty",
      "Name must be 50 characters or less", "Email must be 50 characters or less",
      "Subject must be 100 characters or less",
      "Message must be 500 characters or less", "Invalid email format">>

FailingRules(f) == {k \in 1..8 : ~Rule(k, f)}

FirstFailure(f) ==
    IF FailingRules(f) = {} THEN 0
    ELSE CHOOSE k \in FailingRules(f) : \A j \in FailingRules(f) : k <= j

\* d occurs in t, character for character
Occurs(d, t) ==
    \E i \in 1..Len(t) :
        \A j \in 1..Len(d) : i + j - 1 <= Len(t) /\ t[i + j - 1] = d[j]

HeaderOk(h) == h.kind = "text" /\ (h.text = <<>> \/ Occurs(allowed_domain, h.text))

HeaderOff(h) == h.kind = "text" /\ h.text # <<>> /\ ~Occurs(allowed_domain, h.text)

\* Origin and Referer are both acceptable to the guard the code implements
OriginPolicyOk(rq) == HeaderOk(rq.origin) /\ HeaderOk(rq.referer)

HostOff(rq) == rq.host.kind # "text" \/ ~Occurs(allowed_domain, rq.host.text)

RowsOf(r) == {i \in 1..Len(contacts) : contacts[i].req = r}

RowForm(row) == [name |-> row.name, email |-> row.email, subject |-> row.subject,
                 message |-> row.message]

Failed(r) == result[r] \in {"busy", "io"}

HoldsLock(r) == \E w \in Workers : db[w] = r

\* C1: the pipeline short-circuits: validation runs only after the guard
\* passed, the store is reached only after validation returned Ok, a request
\* answered by an earlier stage ran no later one, and every row of contacts
\* satisfies all eight rules of the Form Validator.
C1_PipelineShortCircuits ==
    /\ \A r \in Requests :
        /\ "validate" \in stages[r] => "guard" \in stages[r] /\ OriginPolicyOk(req[r])
        /\ "store" \in stages[r] =>
               "validate" \in stages[r] /\ FailingRules(req[r].form) = {}
        /\ (pc[r] = "done" /\ ~OriginPolicyOk(req[r])) => stages[r] = {"guard"}
        /\ (pc[r] = "done" /\ OriginPolicyOk(req[r]) /\ FailingRules(req[r].form) # {})
               => stages[r] = {"guard", "validate"}
        /\ RowsOf(r) # {} => "store" \in stages[r]
    /\ \A i \in 1..Len(contacts) : FailingRules(RowForm(contacts[i])) = {}

\* a request stopped by the validator next to a request that was stored
C1_Witness ==
    \E r, q \in Requests :
        /\ pc[r] = "done" /\ response[r] = Reply(400, "Invalid email format")
        /\ stages[r] = {"guard", "validate"}
        /\ RowsOf(r) = {}
        /\ RowsOf(q) # {}

\* C2 as stated: a request whose Host header is absent or does not contain
\* the allowed domain is answered Forbidden and never reaches validation
\* (checked on requests whose Origin and Referer give no other reason to
\* reject them).
C2_HostChecked ==
    \A r \in Requests :
        (pc[r] # "idle" /\ HostOff(req[r]) /\ OriginPolicyOk(req[r])) =>
            /\ "validate" \notin stages[r]
            /\ pc[r] = "done" => response[r].status = 403

\* C2 as amended: the guard does not consult Host; a request whose Origin or
\* Referer is non-empty text without the allowed domain (both headers being
\* present and decodable) is answered Forbidden and reaches neither
\* validation nor the store, and a request whose Origin and Referer are
\* acceptable reaches validation whatever its Host header is.
C2_OriginRefererChecked ==
    \A r \in Requests :
        /\ ( /\ pc[r] = "done"
             /\ req[r].origin.kind = "text" /\ req[r].referer.kind = "text"
             /\ HeaderOff(req[r].origin) \/ HeaderOff(req[r].referer) ) =>
               /\ response[r] = Reply(403, "Access denied")
               /\ stages[r] = {"guard"}
               /\ RowsOf(r) = {}
        /\ (pc[r] = "done" /\ OriginPolicyOk(req[r])) => "validate" \in stages[r]

\* a request with Host: evil.com stored and answered 201
C2_Witness ==
    \E r \in Requests :
        /\ pc[r] = "done" /\ req[r].host = Text(EvilHost)
        /\ response[r].status = 201 /\ RowsOf(r) # {}

\* C3 as stated: a request without a Referer header whose Origin is
\* acceptable passes the guard and reaches the Form Validator.
C3_RefererOptional ==
    \A r \in Requests :
        (pc[r] = "done" /\ req[r].referer.kind = "absent" /\ HeaderOk(req[r].origin))
            => "validate" \in stages[r]

\* C3 as amended: a request without a Referer header (its Origin present and
\* decodable) is answered 400 "Missing referer header" and reaches neither
\* the validator nor the store; a Referer that is present and empty is let
\* through by the guard when the Origin is acceptable.
C3_RefererRequired ==
    \A r \in Requests :
        /\ ( /\ pc[r] = "done"
             /\ req[r].referer.kind = "absent"
             /\ req[r].origin.kind = "text" ) =>
               /\ response[r] = Reply(400, "Missing referer header")
               /\ stages[r] = {"guard"}
               /\ RowsOf(r) = {}
        /\ ( /\ pc[r] = "done"
             /\ req[r].referer = Text(<<>>)
             /\ HeaderOk(req[r].origin) ) => "validate" \in stages[r]

\* a request without Referer and with an acceptable Origin, answered 400
C3_Witness ==
    \E r \in Requests :
        /\ pc[r] = "done" /\ req[r].referer.kind = "absent"
        /\ req[r].origin = Text(SiteUrl)
        /\ response[r] = Reply(400, "Missing referer header")

\* C4: with Origin and Referer both present as text, the answer is Forbidden
\* exactly when one of them is non-empty and lacks the allowed domain; the
\* test is containment of the raw text, case-sensitive, with no URL parsing.
C4_SubstringPolicy ==
    \A r \in Requests :
        ( /\ pc[r] = "done"
          /\ req[r].origin.kind = "text"
          /\ req[r].referer.kind = "text" ) =>
            /\ response[r].status = 403
                   <=> (HeaderOff(req[r].origin) \/ HeaderOff(req[r].referer))
            /\ (req[r].origin = Text(<<>>) /\ req[r].referer = Text(<<>>))
                   => response[r].status # 403
            /\ (req[r].origin = Text(SuffixUrl) /\ HeaderOk(req[r].referer))
                   => response[r].status # 403
            /\ req[r].origin = Text(UpperUrl) => response[r].status = 403

\* Origin: http://example.com.evil.net with an empty Referer gets through
C4_Witness ==
    \E r \in Requests :
        /\ pc[r] = "done" /\ req[r].origin = Text(SuffixUrl)
        /\ req[r].referer = Text(<<>>)
        /\ response[r].status = 201

\* C5: validate_form returns Ok when no rule fails and otherwise the message
\* of the lowest-numbered failing rule, and the handler answers a validated
\* request accordingly; 50/50/100/500 characters pass, 51/51/101/501 get the
\* matching length message, a blank subject passes.
C5_FirstFailureWins ==
    \A r \in Requests :
        pc[r] # "idle" =>
            LET f == req[r].form
                k == FirstFailure(f)
            IN  /\ validate_form(f) = IF k = 0 THEN "Ok" ELSE RuleMessage[k]
                /\ (pc[r] = "done" /\ "validate" \in stages[r]) =>
                       IF k = 0 THEN response[r].status \in {201, 500}
                       ELSE response[r] = Reply(400, RuleMessage[k])
                /\ ( /\ Len(f.name) = 50 /\ ~Blank(f.name)
                     /\ Len(f.email) = 50 /\ EmailMatch(f.email)
                     /\ Len(f.subject) = 100
                     /\ Len(f.message) = 500 /\ ~Blank(f.message) )
                       => validate_form(f) = "Ok"
                /\ (~Blank(f.name) /\ ~Blank(f.email) /\ ~Blank(f.message)) =>
                       /\ Len(f.name) = 51 => validate_form(f) = RuleMessage[4]
                       /\ (Len(f.name) <= 50 /\ Len(f.email) = 51)
                              => validate_form(f) = RuleMessage[5]
                       /\ ( /\ Len(f.name) <= 50 /\ Len(f.email) <= 50
                            /\ Len(f.subject) = 101 )
                              => validate_form(f) = RuleMessage[6]
                       /\ ( /\ Len(f.name) <= 50 /\ Len(f.email) <= 50
                            /\ Len(f.subject) <= 100 /\ Len(f.message) = 501 )
                              => validate_form(f) = RuleMessage[7]
                /\ (f.subject = <<>> /\ \A j \in (1..8) \ {6} : Rule(j, f))
                       => validate_form(f) = "Ok"

\* a form with every field at its limit, stored and answered 201
C5_Witness ==
    \E r \in Requests :
        /\ pc[r] = "done" /\ response[r].status = 201
        /\ Len(req[r].form.name) = 50 /\ Len(req[r].form.email) = 50
        /\ Len(req[r].form.subject) = 100 /\ Len(req[r].form.message) = 500

\* C6 as stated: every valid submission that got past the guard (and was not
\* hit by a failure of the storage medium itself) succeeds with a row of its
\* own; identifiers are distinct and increase in insertion order.
C6_ConcurrentSubmissionsSucceed ==
    /\ \A r \in Requests :
        ( /\ pc[r] = "done"
          /\ OriginPolicyOk(req[r])
          /\ FailingRules(req[r].form) = {}
          /\ result[r] # "io" ) =>
            /\ response[r].status = 201
            /\ Cardinality(RowsOf(r)) = 1
    /\ \A i, j \in 1..Len(contacts) : i < j => contacts[i].id < contacts[j].id

\* C7 as stated: at most one handler of the process is past lock() and
\* before the release of its guard, so at most one is inside db.execute.
C7_OneInsertAtATime ==
    \A r, q \in Requests :
        ( /\ pc[r] \in {"execute", "write", "respond"}
          /\ pc[q] \in {"execute", "write", "respond"} ) => r = q

\* C8: a failed insert is answered once, 500 with the fixed body, after one
\* call of db.execute, and leaves no row of the request; the step on which
\* db.execute fails leaves the table as it was.
C8_StorageFailure ==
    /\ [](\A r \in Requests :
            Failed(r) =>
                /\ attempts[r] = 1
                /\ RowsOf(r) = {}
                /\ pc[r] \in {"respond", "done"}
                /\ pc[r] = "respond" => response[r] = Pass
                /\ pc[r] = "done" =>
                       response[r] = Reply(500, "Failed to store contact form"))
    /\ [][\A r \in Requests :
            (result'[r] # result[r] /\ result'[r] \in {"busy", "io"})
                => contacts' = contacts]_vars

\* an insert that ran into the busy timeout, answered 500
C8_Witness ==
    \E r \in Requests :
        /\ pc[r] = "done" /\ result[r] = "busy"
        /\ response[r].status = 500

\* C9: a request is answered 201 exactly when one row was appended for it;
\* that row carries the four submitted values as they were sent; no step
\* changes or removes a row that is already in the table.
C9_CreatedIffStored ==
    /\ [](\A r \in Requests :
            /\ Cardinality(RowsOf(r)) <= 1
            /\ pc[r] = "done" =>
                   (response[r].status = 201 <=> Cardinality(RowsOf(r)) = 1)
            /\ response[r].status = 201 =>
                   response[r] = Reply(201, "Contact form submitted successfully")
            /\ \A i \in RowsOf(r) : RowForm(contacts[i]) = req[r].form)
    /\ [][/\ Len(contacts') >= Len(contacts)
          /\ \A i \in 1..Len(contacts) : contacts'[i] = contacts[i]]_vars

\* a name with surrounding blanks stored as sent, next to an older row
C9_Witness ==
    \E r \in Requests :
        /\ pc[r] = "done" /\ response[r].status = 201
        /\ req[r].form.name = Padded
        /\ \E i \in RowsOf(r) : i > 1 /\ contacts[i].name = Padded

\* C10: a mutex is held only by a handler of that worker that passed the
\* guard and the validator and has not returned; once a handler returned it
\* holds none; a handler waiting for the mutex gets it and every request
\* received is answered.
C10_LockScopedAndLive ==
    /\ [](\A w \in Workers :
            db[w] # 0 =>
                /\ pc[db[w]] \in {"execute", "write", "respond"}
                /\ req[db[w]].worker = w
                /\ {"guard", "validate"} \subseteq stages[db[w]]
                /\ OriginPolicyOk(req[db[w]])
                /\ FailingRules(req[db[w]].form) = {})
    /\ [](\A r \in Requests :
            pc[r] \in {"idle", "guard", "validate", "lock", "done"} => ~HoldsLock(r))
    /\ \A r \in Requests : (pc[r] = "lock") ~> HoldsLock(r)
    /\ \A r \in Requests : (pc[r] # "idle") ~> (pc[r] = "done")

\* a handler waiting at lock() while another handler of its worker is
\* inside the store after a failed insert
C10_Witness ==
    \E r, q \in Requests :
        /\ pc[r] = "lock" /\ db[req[r].worker] = q
        /\ pc[q] = "respond" /\ Failed(q)

====
